---- MODULE Spec2Model ----
(***************************************************************************)
(* daemonizer: BoundedQueue, TaskGroup and launchEventLoop as state        *)
(* machines.  JavaScript is single threaded: every action below is one     *)
(* synchronous run of code between two suspension points (an await or a    *)
(* timer callback).                                                        *)
(*                                                                         *)
(*   SpecQueue  BoundedQueue driven by producer and consumer flows         *)
(*   SpecTG     TaskGroup driven by add / done / wait callers              *)
(*   SpecLoop   launchEventLoop over a BoundedQueue and a TaskGroup        *)
(*   SpecNew    BoundedQueue from its constructor on                       *)
(*   SpecDaemon Daemon: constructor, pushEvent, close                      *)
(*   SpecAbort  withAbort, withTimeout and mergeAbortSignals on their own  *)
(*   SpecStarve BoundedQueue with an unbounded number of calls            *)
(*   SpecTGAny  TaskGroup with add(n) for any n                            *)
(*   SpecYield  launchEventLoop and its MacroTaskYielder on a clock        *)
(*   FairLoop, FairStarve, FairDaemon: the same under the scheduling of    *)
(*   the JavaScript runtime                                                *)
(***************************************************************************)
EXTENDS Integers, Sequences, FiniteSets, TLC

\* ---------------------------------------------------------------- bounds
MaxCap      == 2   \* capacities 1..MaxCap are tried
MaxPush     == 4   \* number of tryPush / push calls issued (values 1..MaxPush)
NProducers  == 3   \* concurrent producer flows
NConsumers  == 2   \* concurrent consumer flows (SpecQueue)
NWaiters    == 2   \* concurrent TaskGroup.wait() callers
MaxAddArg   == 2   \* largest n of add(n) (SpecTG)
MaxAdded    == 3   \* cap on the sum of add arguments (SpecTG)
MaxDones    == 4   \* cap on the number of done() calls (SpecTG)
MaxInterval == 1   \* loopIntervalMs values 1..MaxInterval are tried
MaxLoopPush == 2   \* tryPush / push calls issued around a loop (SpecLoop)
NLoopProducers == 1  \* producer flows around a loop (SpecLoop)
NLoopWaiters == 1    \* wait() callers around a loop (SpecLoop)
MaxCloses   == 2   \* number of close() calls issued
NDaemonPushers == 2  \* concurrent pushEvent() callers (SpecDaemon)
MaxDaemonPush == 4   \* pushEvent() calls issued (SpecDaemon)
NDaemonClosers == 2  \* Daemon.close() callers (SpecDaemon)
MaxNeg      == 1   \* constructor arguments -MaxNeg..MaxCap are tried (SpecNew)
MaxNegAdd   == 1   \* add(n) with n in -MaxNegAdd..MaxAddArg (SpecTGAny)
MaxNow      == 3   \* the clock runs from 0 to MaxNow milliseconds (SpecYield)

Producers == 1..NProducers
Consumers == 1..NConsumers
Waiters   == 1..NWaiters
LoopId    == 0                 \* the event loop as a consumer of the queue
ConsumerIds == Consumers \cup {LoopId}

\* What a next() request holds: a value 1..MaxPush, IteratorResult
\* { done: true }, or nothing yet (the promise is pending)
EOS  == 0
NONE == -1

\* Kinds of rejection reasons the loop tells apart (event_loop.ts 41, 56-62):
\*   "timeout"  the timeoutError object itself          (err === timeoutError)
\*   "dom"      any other DOMException                  (err instanceof DOMException)
\*   "other"    anything else
ErrKinds == {"timeout", "dom", "other"}

VARIABLES
  \* BoundedQueue fields
  capacity, buffer, waitingConsumers, waitingProducers, closed,
  \* flows using the queue: position, value in flight, last result
  ppc, pval, pres, cpc, cres,
  \* history of the queue: values accepted / values that left, in order
  nextVal, enq, deq, eosSeen, closeBuf, deqAtClose,
  \* outcome of the constructor; woken producers in the order their
  \* continuations were queued; history: values in the order their push
  \* first suspended, values received by each next() caller, close() calls
  ctor, wokenQ, susp, got, closes,
  \* whether the history above is kept (unique values, bounded number of
  \* calls) or not (a push carries its caller's id, calls are unbounded)
  recording,
  \* TaskGroup fields, its wait() callers and its call history
  count, waiters, wpc, added, dones,
  \* history: whether add() was ever called with n <= 0 or done() ever
  \* called more often than units had been added
  misused,
  \* launchEventLoop: parameters, position, awaited race, history
  strictInterval, loopIntervalMs, srcFaulty,
  lp, race, handled, hsettled, aborted, reason, sinceYield, timer,
  thrown, exitBy,
  \* history: number of handler invocations whose promise is still pending
  inflight,
  \* the clock: whether it is kept, performance.now() in milliseconds, and
  \* MacroTaskYielder.lastYield
  clocked, now, lastYield,
  \* withAbort / withTimeout / mergeAbortSignals used on their own: the call
  \* made, whether a source was passed, the operation's promise, the reason
  \* of each signal, the abort listeners, the timer, the raced promise, the
  \* returned promise, whether the operation itself was returned, and the
  \* history of events in the order they happened
  api, hasSrc, op, sig, lsn, tpend, arace, res, same, order

qvars    == <<capacity, buffer, waitingConsumers, waitingProducers, closed,
              ppc, pval, pres, cpc, cres,
              nextVal, enq, deq, eosSeen, closeBuf, deqAtClose,
              ctor, wokenQ, susp, got, closes, recording>>
tgvars   == <<count, waiters, wpc, added, dones, misused>>
loopvars == <<strictInterval, loopIntervalMs, srcFaulty,
              lp, race, handled, hsettled, aborted, reason, sinceYield,
              timer, thrown, exitBy, inflight, clocked, now, lastYield>>
abvars   == <<api, hasSrc, op, sig, lsn, tpend, arace, res, same, order>>
vars     == <<qvars, tgvars, loopvars, abvars>>

\* ------------------------------------------------------------ helpers
Min(a, b) == IF a < b THEN a ELSE b
IsPrefix(a, b) == Len(a) <= Len(b) /\ a = SubSeq(b, 1, Len(a))

\* ================================================================
\* BoundedQueue
\* ================================================================

\* history keeping: a value is appended to a history only while recording;
\* a recorded call gets the next unused value, and only MaxPush (or fewer)
\* recorded calls are issued
Log(h, v) == IF recording THEN Append(h, v) ELSE h
NewValue(p) == IF recording THEN nextVal ELSE p
Issuable(n) == recording => nextVal <= n

\* field initialisers of the class: empty, open, nobody waiting
QueueFields ==
  /\ buffer = <<>>
  /\ waitingConsumers = <<>>
  /\ waitingProducers = <<>>
  /\ closed = FALSE
  /\ ppc = [p \in Producers |-> "idle"]
  /\ pval = [p \in Producers |-> 0]
  /\ pres = [p \in Producers |-> "none"]
  /\ cpc = [c \in ConsumerIds |-> "idle"]
  /\ cres = [c \in ConsumerIds |-> NONE]
  /\ nextVal = 1
  /\ enq = <<>>
  /\ deq = <<>>
  /\ eosSeen = FALSE
  /\ closeBuf = <<>>
  /\ deqAtClose = 0
  /\ wokenQ = <<>>
  /\ susp = <<>>
  /\ got = [c \in ConsumerIds |-> <<>>]
  /\ closes = 0

\* new BoundedQueue(c): the parameter property is assigned, then the
\* constructor throws errZeroCapacity when c <= 0.  ctor is "none" before
\* the call, then "ok" or the error thrown.
constructor_negonly(c) ==
  /\ ctor = "none"
  /\ capacity' = c
  /\ ctor' = IF c < 0 THEN "errZeroCapacity" ELSE "ok"
  /\ UNCHANGED <<recording, buffer, waitingConsumers, waitingProducers, closed,
                 ppc, pval, pres, cpc, cres, nextVal, enq, deq, eosSeen,
                 closeBuf, deqAtClose, wokenQ, susp, got, closes>>

constructor(c) ==
  /\ ctor = "none"
  /\ capacity' = c
  /\ ctor' = IF c <= 0 THEN "errZeroCapacity" ELSE "ok"
  /\ UNCHANGED <<recording, buffer, waitingConsumers, waitingProducers, closed,
                 ppc, pval, pres, cpc, cres, nextVal, enq, deq, eosSeen,
                 closeBuf, deqAtClose, wokenQ, susp, got, closes>>

\* a queue constructed with a capacity > 0
QueueInit ==
  /\ capacity \in 1..MaxCap
  /\ ctor = "ok"
  /\ recording = TRUE
  /\ QueueFields

\* tryPushIntrenal(value): ok is the boolean it returns.
\* A waiting consumer gets the value directly, else the value is buffered
\* when there is room, else overflow.
tryPushIntrenal_over(v, ok) ==
  IF waitingConsumers # <<>>
  THEN /\ ok = TRUE
       /\ waitingConsumers' = Tail(waitingConsumers)
       /\ cpc' = [cpc EXCEPT ![Head(waitingConsumers)] = "idle"]
       /\ cres' = [cres EXCEPT ![Head(waitingConsumers)] = v]
       /\ enq' = Log(enq, v)
       /\ deq' = Log(deq, v)
       /\ got' = [got EXCEPT ![Head(waitingConsumers)] = Log(@, v)]
       /\ UNCHANGED buffer
  ELSE IF Len(buffer) <= capacity
  THEN /\ ok = TRUE
       /\ buffer' = Append(buffer, v)
       /\ enq' = Log(enq, v)
       /\ UNCHANGED <<waitingConsumers, cpc, cres, deq, got>>
  ELSE /\ ok = FALSE
       /\ UNCHANGED <<buffer, waitingConsumers, cpc, cres, enq, deq, got>>

tryPushIntrenal_bufferfirst(v, ok) ==
  IF Len(buffer) < capacity
  THEN /\ ok = TRUE
       /\ buffer' = Append(buffer, v)
       /\ enq' = Log(enq, v)
       /\ UNCHANGED <<waitingConsumers, cpc, cres, deq, got>>
  ELSE IF waitingConsumers # <<>>
  THEN /\ ok = TRUE
       /\ waitingConsumers' = Tail(waitingConsumers)
       /\ cpc' = [cpc EXCEPT ![Head(waitingConsumers)] = "idle"]
       /\ cres' = [cres EXCEPT ![Head(waitingConsumers)] = v]
       /\ enq' = Log(enq, v)
       /\ deq' = Log(deq, v)
       /\ got' = [got EXCEPT ![Head(waitingConsumers)] = Log(@, v)]
       /\ UNCHANGED buffer
  ELSE /\ ok = FALSE
       /\ UNCHANGED <<buffer, waitingConsumers, cpc, cres, enq, deq, got>>

\* tryPushIntrenal that hands the value to the consumer registered last
tryPushIntrenal_newest(v, ok) ==
  IF waitingConsumers # <<>>
  THEN /\ ok = TRUE
       /\ waitingConsumers' = SubSeq(waitingConsumers, 1, Len(waitingConsumers) - 1)
       /\ cpc' = [cpc EXCEPT ![waitingConsumers[Len(waitingConsumers)]] = "idle"]
       /\ cres' = [cres EXCEPT ![waitingConsumers[Len(waitingConsumers)]] = v]
       /\ enq' = Log(enq, v)
       /\ deq' = Log(deq, v)
       /\ got' = [got EXCEPT ![waitingConsumers[Len(waitingConsumers)]] = Log(@, v)]
       /\ UNCHANGED buffer
  ELSE IF Len(buffer) < capacity
  THEN /\ ok = TRUE
       /\ buffer' = Append(buffer, v)
       /\ enq' = Log(enq, v)
       /\ UNCHANGED <<waitingConsumers, cpc, cres, deq, got>>
  ELSE /\ ok = FALSE
       /\ UNCHANGED <<buffer, waitingConsumers, cpc, cres, enq, deq, got>>

tryPushIntrenal(v, ok) ==
  IF waitingConsumers # <<>>
  THEN /\ ok = TRUE
       /\ waitingConsumers' = Tail(waitingConsumers)
       /\ cpc' = [cpc EXCEPT ![Head(waitingConsumers)] = "idle"]
       /\ cres' = [cres EXCEPT ![Head(waitingConsumers)] = v]
       /\ enq' = Log(enq, v)
       /\ deq' = Log(deq, v)
       /\ got' = [got EXCEPT ![Head(waitingConsumers)] = Log(@, v)]
       /\ UNCHANGED buffer
  ELSE IF Len(buffer) < capacity
  THEN /\ ok = TRUE
       /\ buffer' = Append(buffer, v)
       /\ enq' = Log(enq, v)
       /\ UNCHANGED <<waitingConsumers, cpc, cres, deq, got>>
  ELSE /\ ok = FALSE
       /\ UNCHANGED <<buffer, waitingConsumers, cpc, cres, enq, deq, got>>

\* tryPush(value): never suspends
tryPush_noclosed(p) ==
  /\ ppc[p] = "idle"
  /\ Issuable(MaxPush)
  /\ nextVal' = IF recording THEN nextVal + 1 ELSE nextVal
  /\ \E ok \in BOOLEAN :
          /\ tryPushIntrenal(NewValue(p), ok)
          /\ pres' = [pres EXCEPT ![p] = IF ok THEN "true" ELSE "false"]
  /\ UNCHANGED <<capacity, ctor, recording, waitingProducers, closed, ppc, pval,
                 eosSeen, closeBuf, deqAtClose, wokenQ, susp, closes>>

\* tryPush that registers its caller as a waiting producer when refused
tryPush_suspend(p) ==
  /\ ppc[p] = "idle"
  /\ Issuable(MaxPush)
  /\ nextVal' = IF recording THEN nextVal + 1 ELSE nextVal
  /\ IF closed
     THEN /\ pres' = [pres EXCEPT ![p] = "false"]
          /\ UNCHANGED <<buffer, waitingConsumers, cpc, cres, enq, deq, got,
                         waitingProducers, ppc, pval>>
     ELSE \E ok \in BOOLEAN :
          /\ tryPushIntrenal(NewValue(p), ok)
          /\ IF ok
             THEN /\ pres' = [pres EXCEPT ![p] = "true"]
                  /\ UNCHANGED <<waitingProducers, ppc, pval>>
             ELSE /\ pres' = [pres EXCEPT ![p] = "none"]
                  /\ waitingProducers' = Append(waitingProducers, p)
                  /\ ppc' = [ppc EXCEPT ![p] = "waiting"]
                  /\ pval' = [pval EXCEPT ![p] = NewValue(p)]
  /\ UNCHANGED <<capacity, ctor, recording, closed,
                 eosSeen, closeBuf, deqAtClose, wokenQ, susp, closes>>

tryPush(p) ==
  /\ ppc[p] = "idle"
  /\ Issuable(MaxPush)
  /\ nextVal' = IF recording THEN nextVal + 1 ELSE nextVal
  /\ IF closed
     THEN /\ pres' = [pres EXCEPT ![p] = "false"]
          /\ UNCHANGED <<buffer, waitingConsumers, cpc, cres, enq, deq, got>>
     ELSE \E ok \in BOOLEAN :
          /\ tryPushIntrenal(NewValue(p), ok)
          /\ pres' = [pres EXCEPT ![p] = IF ok THEN "true" ELSE "false"]
  /\ UNCHANGED <<capacity, ctor, recording, waitingProducers, closed, ppc, pval,
                 eosSeen, closeBuf, deqAtClose, wokenQ, susp, closes>>

\* One turn of the while (true) of push(value): return false when closed,
\* return true when tryPushIntrenal succeeds, else register as a waiting
\* producer and suspend.
pushTurn_alwayswait(p, v) ==
  IF closed
  THEN /\ pres' = [pres EXCEPT ![p] = "false"]
       /\ ppc' = [ppc EXCEPT ![p] = "idle"]
       /\ pval' = [pval EXCEPT ![p] = 0]
       /\ UNCHANGED <<buffer, waitingConsumers, waitingProducers,
                      cpc, cres, enq, deq, got, susp>>
  ELSE IF ppc[p] = "woken"
  THEN \E ok \in BOOLEAN :
          /\ tryPushIntrenal(v, ok)
          /\ IF ok
             THEN /\ pres' = [pres EXCEPT ![p] = "true"]
                  /\ ppc' = [ppc EXCEPT ![p] = "idle"]
                  /\ pval' = [pval EXCEPT ![p] = 0]
                  /\ UNCHANGED <<waitingProducers, susp>>
             ELSE /\ waitingProducers' = Append(waitingProducers, p)
                  /\ ppc' = [ppc EXCEPT ![p] = "waiting"]
                  /\ pval' = [pval EXCEPT ![p] = v]
                  /\ pres' = [pres EXCEPT ![p] = "none"]
                  /\ UNCHANGED susp
  ELSE /\ waitingProducers' = Append(waitingProducers, p)
       /\ ppc' = [ppc EXCEPT ![p] = "waiting"]
       /\ pval' = [pval EXCEPT ![p] = v]
       /\ pres' = [pres EXCEPT ![p] = "none"]
       /\ susp' = Log(susp, v)
       /\ UNCHANGED <<buffer, waitingConsumers, cpc, cres, enq, deq, got>>

pushTurn(p, v) ==
  IF closed
  THEN /\ pres' = [pres EXCEPT ![p] = "false"]
       /\ ppc' = [ppc EXCEPT ![p] = "idle"]
       /\ pval' = [pval EXCEPT ![p] = 0]
       /\ UNCHANGED <<buffer, waitingConsumers, waitingProducers,
                      cpc, cres, enq, deq, got, susp>>
  ELSE \E ok \in BOOLEAN :
          /\ tryPushIntrenal(v, ok)
          /\ IF ok
             THEN /\ pres' = [pres EXCEPT ![p] = "true"]
                  /\ ppc' = [ppc EXCEPT ![p] = "idle"]
                  /\ pval' = [pval EXCEPT ![p] = 0]
                  /\ UNCHANGED <<waitingProducers, susp>>
             ELSE /\ waitingProducers' = Append(waitingProducers, p)
                  /\ ppc' = [ppc EXCEPT ![p] = "waiting"]
                  /\ pval' = [pval EXCEPT ![p] = v]
                  /\ pres' = [pres EXCEPT ![p] = "none"]
                  /\ susp' = IF \E i \in 1..Len(susp) : susp[i] = v
                             THEN susp ELSE Log(susp, v)

\* push(value) is called: the first turn runs synchronously
push(p) ==
  /\ ppc[p] = "idle"
  /\ Issuable(MaxPush)
  /\ nextVal' = IF recording THEN nextVal + 1 ELSE nextVal
  /\ pushTurn(p, NewValue(p))
  /\ UNCHANGED <<capacity, ctor, recording, closed, eosSeen, closeBuf, deqAtClose,
                 wokenQ, closes>>

\* a producer woken by next() or close() resumes after its await.  The
\* continuations of resolved promises run in the order the promises were
\* resolved: the producer woken first resumes first.
pushResume(p) ==
  /\ ppc[p] = "woken"
  /\ wokenQ # <<>> /\ p = Head(wokenQ)
  /\ wokenQ' = Tail(wokenQ)
  /\ pushTurn(p, pval[p])
  /\ UNCHANGED <<capacity, ctor, recording, closed, nextVal, eosSeen, closeBuf,
                 deqAtClose, closes>>

\* close(): no-op when closed; else every waiting consumer gets done:true
\* and every waiting producer is woken
close_toggle ==
  /\ closes' = closes + 1
  /\ IF FALSE
     THEN UNCHANGED <<capacity, ctor, recording, buffer, waitingConsumers,
                      waitingProducers, closed, ppc, pval, pres, cpc, cres,
                      nextVal, enq, deq, got, eosSeen, closeBuf, deqAtClose,
                      wokenQ, susp>>
     ELSE
       /\ closed' = ~closed
       /\ cres' = [c \in ConsumerIds |->
                     IF cpc[c] = "waiting" THEN EOS ELSE cres[c]]
       /\ cpc' = [c \in ConsumerIds |-> "idle"]
       /\ waitingConsumers' = <<>>
       /\ ppc' = [p \in Producers |->
                     IF ppc[p] = "waiting" THEN "woken" ELSE ppc[p]]
       /\ waitingProducers' = <<>>
       /\ wokenQ' = wokenQ \o waitingProducers
       /\ eosSeen' = (eosSeen \/ waitingConsumers # <<>>)
       /\ closeBuf' = buffer
       /\ deqAtClose' = Len(deq)
       /\ UNCHANGED <<capacity, ctor, recording, buffer, pval, pres, nextVal, enq, deq,
                      got, susp>>

\* close that releases the waiting consumers and leaves the producers
close_consumersonly ==
  /\ closes' = closes + 1
  /\ IF closed
     THEN UNCHANGED <<capacity, ctor, recording, buffer, waitingConsumers,
                      waitingProducers, closed, ppc, pval, pres, cpc, cres,
                      nextVal, enq, deq, got, eosSeen, closeBuf, deqAtClose,
                      wokenQ, susp>>
     ELSE
       /\ closed' = TRUE
       /\ cres' = [c \in ConsumerIds |->
                     IF cpc[c] = "waiting" THEN EOS ELSE cres[c]]
       /\ cpc' = [c \in ConsumerIds |-> "idle"]
       /\ waitingConsumers' = <<>>
       /\ eosSeen' = (eosSeen \/ waitingConsumers # <<>>)
       /\ closeBuf' = buffer
       /\ deqAtClose' = Len(deq)
       /\ UNCHANGED <<capacity, ctor, recording, buffer, pval, pres, nextVal, enq, deq,
                      got, susp, ppc, waitingProducers, wokenQ>>

close ==
  /\ closes' = closes + 1
  /\ IF closed
     THEN UNCHANGED <<capacity, ctor, recording, buffer, waitingConsumers,
                      waitingProducers, closed, ppc, pval, pres, cpc, cres,
                      nextVal, enq, deq, got, eosSeen, closeBuf, deqAtClose,
                      wokenQ, susp>>
     ELSE
       /\ closed' = TRUE
       /\ cres' = [c \in ConsumerIds |->
                     IF cpc[c] = "waiting" THEN EOS ELSE cres[c]]
       /\ cpc' = [c \in ConsumerIds |-> "idle"]
       /\ waitingConsumers' = <<>>
       /\ ppc' = [p \in Producers |->
                     IF ppc[p] = "waiting" THEN "woken" ELSE ppc[p]]
       /\ waitingProducers' = <<>>
       /\ wokenQ' = wokenQ \o waitingProducers
       /\ eosSeen' = (eosSeen \/ waitingConsumers # <<>>)
       /\ closeBuf' = buffer
       /\ deqAtClose' = Len(deq)
       /\ UNCHANGED <<capacity, ctor, recording, buffer, pval, pres, nextVal, enq, deq,
                      got, susp>>

\* nextInternal() called by consumer c: wake one producer, then pop the
\* oldest buffered value, else report done when closed, else register
nextInternal_lifo(c) ==
  /\ IF waitingProducers # <<>>
     THEN /\ waitingProducers' = Tail(waitingProducers)
          /\ ppc' = [ppc EXCEPT ![Head(waitingProducers)] = "woken"]
          /\ wokenQ' = Append(wokenQ, Head(waitingProducers))
     ELSE UNCHANGED <<waitingProducers, ppc, wokenQ>>
  /\ IF buffer # <<>>
     THEN /\ cres' = [cres EXCEPT ![c] = buffer[Len(buffer)]]
          /\ deq' = Log(deq, buffer[Len(buffer)])
          /\ got' = [got EXCEPT ![c] = Log(@, buffer[Len(buffer)])]
          /\ buffer' = SubSeq(buffer, 1, Len(buffer) - 1)
          /\ UNCHANGED <<waitingConsumers, cpc, eosSeen>>
     ELSE IF closed
     THEN /\ cres' = [cres EXCEPT ![c] = EOS]
          /\ eosSeen' = TRUE
          /\ UNCHANGED <<buffer, waitingConsumers, cpc, deq, got>>
     ELSE /\ waitingConsumers' = Append(waitingConsumers, c)
          /\ cpc' = [cpc EXCEPT ![c] = "waiting"]
          /\ cres' = [cres EXCEPT ![c] = NONE]
          /\ UNCHANGED <<buffer, deq, got, eosSeen>>
  /\ UNCHANGED <<capacity, ctor, recording, closed, pval, pres, nextVal, enq,
                 closeBuf, deqAtClose, susp, closes>>

nextInternal_eos(c) ==
  /\ IF waitingProducers # <<>>
     THEN /\ waitingProducers' = Tail(waitingProducers)
          /\ ppc' = [ppc EXCEPT ![Head(waitingProducers)] = "woken"]
          /\ wokenQ' = Append(wokenQ, Head(waitingProducers))
     ELSE UNCHANGED <<waitingProducers, ppc, wokenQ>>
  /\ IF closed
     THEN /\ cres' = [cres EXCEPT ![c] = EOS]
          /\ eosSeen' = TRUE
          /\ UNCHANGED <<buffer, waitingConsumers, cpc, deq, got>>
     ELSE IF buffer # <<>>
     THEN /\ cres' = [cres EXCEPT ![c] = Head(buffer)]
          /\ deq' = Log(deq, Head(buffer))
          /\ got' = [got EXCEPT ![c] = Log(@, Head(buffer))]
          /\ buffer' = Tail(buffer)
          /\ UNCHANGED <<waitingConsumers, cpc, eosSeen>>
     ELSE /\ waitingConsumers' = Append(waitingConsumers, c)
          /\ cpc' = [cpc EXCEPT ![c] = "waiting"]
          /\ cres' = [cres EXCEPT ![c] = NONE]
          /\ UNCHANGED <<buffer, deq, got, eosSeen>>
  /\ UNCHANGED <<capacity, ctor, recording, closed, pval, pres, nextVal, enq,
                 closeBuf, deqAtClose, susp, closes>>

nextInternal_peek(c) ==
  /\ IF waitingProducers # <<>>
     THEN /\ waitingProducers' = Tail(waitingProducers)
          /\ ppc' = [ppc EXCEPT ![Head(waitingProducers)] = "woken"]
          /\ wokenQ' = Append(wokenQ, Head(waitingProducers))
     ELSE UNCHANGED <<waitingProducers, ppc, wokenQ>>
  /\ IF buffer # <<>>
     THEN /\ cres' = [cres EXCEPT ![c] = Head(buffer)]
          /\ deq' = Log(deq, Head(buffer))
          /\ got' = [got EXCEPT ![c] = Log(@, Head(buffer))]
          /\ buffer' = buffer
          /\ UNCHANGED <<waitingConsumers, cpc, eosSeen>>
     ELSE IF closed
     THEN /\ cres' = [cres EXCEPT ![c] = EOS]
          /\ eosSeen' = TRUE
          /\ UNCHANGED <<buffer, waitingConsumers, cpc, deq, got>>
     ELSE /\ waitingConsumers' = Append(waitingConsumers, c)
          /\ cpc' = [cpc EXCEPT ![c] = "waiting"]
          /\ cres' = [cres EXCEPT ![c] = NONE]
          /\ UNCHANGED <<buffer, deq, got, eosSeen>>
  /\ UNCHANGED <<capacity, ctor, recording, closed, pval, pres, nextVal, enq,
                 closeBuf, deqAtClose, susp, closes>>

nextInternal(c) ==
  /\ IF waitingProducers # <<>>
     THEN /\ waitingProducers' = Tail(waitingProducers)
          /\ ppc' = [ppc EXCEPT ![Head(waitingProducers)] = "woken"]
          /\ wokenQ' = Append(wokenQ, Head(waitingProducers))
     ELSE UNCHANGED <<waitingProducers, ppc, wokenQ>>
  /\ IF buffer # <<>>
     THEN /\ cres' = [cres EXCEPT ![c] = Head(buffer)]
          /\ deq' = Log(deq, Head(buffer))
          /\ got' = [got EXCEPT ![c] = Log(@, Head(buffer))]
          /\ buffer' = Tail(buffer)
          /\ UNCHANGED <<waitingConsumers, cpc, eosSeen>>
     ELSE IF closed
     THEN /\ cres' = [cres EXCEPT ![c] = EOS]
          /\ eosSeen' = TRUE
          /\ UNCHANGED <<buffer, waitingConsumers, cpc, deq, got>>
     ELSE /\ waitingConsumers' = Append(waitingConsumers, c)
          /\ cpc' = [cpc EXCEPT ![c] = "waiting"]
          /\ cres' = [cres EXCEPT ![c] = NONE]
          /\ UNCHANGED <<buffer, deq, got, eosSeen>>
  /\ UNCHANGED <<capacity, ctor, recording, closed, pval, pres, nextVal, enq,
                 closeBuf, deqAtClose, susp, closes>>

\* next() / the iterator's next() called by a consumer with no pending request
next(c) ==
  /\ cpc[c] = "idle"
  /\ nextInternal(c)

\* ================================================================
\* TaskGroup
\* ================================================================
TGInit ==
  /\ count = 0
  /\ waiters = <<>>
  /\ wpc = [w \in Waiters |-> "idle"]
  /\ added = 0
  /\ dones = 0
  /\ misused = FALSE

\* add(n) that resolves the waiters when it brings the counter to 0
add_release(n) ==
  /\ count' = count + n
  /\ added' = added + n
  /\ misused' = (misused \/ n <= 0)
  /\ IF count' = 0
     THEN /\ wpc' = [w \in Waiters |->
                      IF wpc[w] = "waiting" THEN "released" ELSE wpc[w]]
          /\ waiters' = <<>>
     ELSE UNCHANGED <<wpc, waiters>>
  /\ UNCHANGED dones

\* add(n)
add(n) ==
  /\ count' = count + n
  /\ added' = added + n
  /\ misused' = (misused \/ n <= 0)
  /\ UNCHANGED <<waiters, wpc, dones>>

\* done() that decrements and never resolves a waiter
done_norelease ==
  /\ count' = count - 1
  /\ dones' = dones + 1
  /\ misused' = (misused \/ dones + 1 > added)
  /\ UNCHANGED <<wpc, waiters, added>>

\* done(): decrement; at exactly 0 resolve every waiter and clear the list
done_early ==
  /\ count' = count - 1
  /\ dones' = dones + 1
  /\ IF count' <= 1
     THEN /\ wpc' = [w \in Waiters |->
                      IF wpc[w] = "waiting" THEN "released" ELSE wpc[w]]
          /\ waiters' = <<>>
     ELSE UNCHANGED <<wpc, waiters>>
  /\ misused' = (misused \/ dones + 1 > added)
  /\ UNCHANGED added

done ==
  /\ count' = count - 1
  /\ dones' = dones + 1
  /\ IF count' = 0
     THEN /\ wpc' = [w \in Waiters |->
                      IF wpc[w] = "waiting" THEN "released" ELSE wpc[w]]
          /\ waiters' = <<>>
     ELSE UNCHANGED <<wpc, waiters>>
  /\ misused' = (misused \/ dones + 1 > added)
  /\ UNCHANGED added

\* wait(): resolved at once when count is 0, else a waiter is registered
wait_register(w) ==
  /\ wpc[w] = "idle"
  /\ waiters' = Append(waiters, w)
  /\ wpc' = [wpc EXCEPT ![w] = "waiting"]
  /\ UNCHANGED <<count, added, dones, misused>>

wait(w) ==
  /\ wpc[w] = "idle"
  /\ IF count = 0
     THEN /\ wpc' = [wpc EXCEPT ![w] = "immediate"]
          /\ UNCHANGED waiters
     ELSE /\ waiters' = Append(waiters, w)
          /\ wpc' = [wpc EXCEPT ![w] = "waiting"]
  /\ UNCHANGED <<count, added, dones, misused>>

\* ================================================================
\* launchEventLoop
\* ================================================================
LoopInit ==
  /\ strictInterval \in BOOLEAN
  /\ loopIntervalMs \in 1..MaxInterval
  /\ srcFaulty \in BOOLEAN
  /\ lp = "init"
  /\ race = "pending"
  /\ handled = <<>>
  /\ hsettled = {}
  /\ aborted = FALSE
  /\ reason = "none"
  /\ sinceYield = 0
  /\ timer = -1
  /\ thrown = FALSE
  /\ exitBy = "none"
  /\ inflight = 0
  /\ clocked = FALSE
  /\ now = 0
  /\ lastYield = 0

\* parameters of a loop that is never launched
LoopOff ==
  /\ strictInterval = FALSE
  /\ loopIntervalMs = 1
  /\ srcFaulty = FALSE
  /\ lp = "init"
  /\ race = "pending"
  /\ handled = <<>>
  /\ hsettled = {}
  /\ aborted = FALSE
  /\ reason = "none"
  /\ sinceYield = 0
  /\ timer = -1
  /\ thrown = FALSE
  /\ exitBy = "none"
  /\ inflight = 0
  /\ clocked = FALSE
  /\ now = 0
  /\ lastYield = 0

\* The loop is at one of its awaits:
\*   "awaitNext"     await withAbort(iterator.next(), signal)
\*   "awaitHandler"  await withTimeout(...) / withAbort(handleEvent(...), signal)
\*   "awaitYield"    await yieldScheduler.yieldByInterval()
\* race is the state of the awaited promise: "pending", "ok", or the kind
\* of its rejection reason.  At "awaitNext" the fulfilment value is the
\* iterator result cres[LoopId].

\* Continuations run in the order their promises were resolved, and before
\* any timer callback.  nextInternal resolves a waiting producer before it
\* answers the caller, so a producer woken by the loop's own next() resumes
\* before the loop does and before time passes.  (A producer woken by
\* close() resumes on a closed queue and only returns false.)
ContinuationsFirst == wokenQ = <<>> \/ closed

\* finally { taskGroup.done() } and the end of launchEventLoop.
\* by: "eos" (result.done), "cancel" (break on a DOMException),
\* "fatal" (throw err)
finish_nofinally(by) ==
  /\ lp' = "stopped"
  /\ exitBy' = by
  /\ thrown' = (by = "fatal")
  /\ IF by = "fatal" THEN UNCHANGED tgvars ELSE done

finish(by) ==
  /\ lp' = "stopped"
  /\ exitBy' = by
  /\ thrown' = (by = "fatal")
  /\ done

\* withAbort(iterator.next(), signal): iterator.next() runs first
\* (nextInternal on the queue, or a rejection of a failing event source),
\* then withAbort rejects at once when the signal is already aborted
requestNext ==
  /\ lp' = "awaitNext"
  /\ \E f \in (IF srcFaulty THEN {"none"} \cup ErrKinds ELSE {"none"}) :
       /\ IF f = "none" THEN nextInternal(LoopId) ELSE UNCHANGED qvars
       /\ race' = IF aborted THEN reason
                  ELSE IF f = "none" THEN "pending" ELSE f

\* launchEventLoop that starts the loop without taskGroup.add(1)
Launch_noadd ==
  /\ lp = "init"
  /\ UNCHANGED tgvars
  /\ sinceYield' = 0
  /\ requestNext
  /\ UNCHANGED <<abvars, strictInterval, loopIntervalMs, srcFaulty, handled, hsettled,
                 aborted, reason, timer, thrown, exitBy, inflight>>
  /\ lastYield' = now
  /\ UNCHANGED <<clocked, now>>

\* launchEventLoop is called: new MacroTaskYielder, taskGroup.add(1) and
\* the first turn of the loop up to its first await
Launch ==
  /\ lp = "init"
  /\ add(1)
  /\ sinceYield' = 0
  /\ requestNext
  /\ UNCHANGED <<abvars, strictInterval, loopIntervalMs, srcFaulty, handled, hsettled,
                 aborted, reason, timer, thrown, exitBy, inflight>>
  /\ lastYield' = now
  /\ UNCHANGED <<clocked, now>>

\* the loop resumes from await withAbort(iterator.next(), signal)
LoopNextResume ==
  /\ ContinuationsFirst
  /\ lp = "awaitNext"
  /\ race # "pending" \/ cres[LoopId] # NONE
  /\ IF race = "other"
     THEN /\ finish("fatal")
          /\ UNCHANGED <<race, handled, timer, inflight>>
     ELSE IF race \in {"dom", "timeout"}
     THEN /\ finish("cancel")
          /\ UNCHANGED <<race, handled, timer, inflight>>
     ELSE IF cres[LoopId] = EOS
     THEN /\ finish("eos")
          /\ UNCHANGED <<race, handled, timer, inflight>>
     ELSE \* dispatch: the handler is invoked, then withAbort / withTimeout
          \* rejects at once when the signal is already aborted
          /\ handled' = Append(handled, cres[LoopId])
          /\ inflight' = inflight + 1
          /\ lp' = "awaitHandler"
          /\ race' = IF aborted THEN reason ELSE "pending"
          /\ timer' = IF strictInterval THEN loopIntervalMs ELSE -1
          /\ UNCHANGED <<tgvars, thrown, exitBy>>
  /\ UNCHANGED <<qvars, abvars, strictInterval, loopIntervalMs, srcFaulty, hsettled,
                 aborted, reason, sinceYield>>
  /\ UNCHANGED <<clocked, now, lastYield>>

\* the handler's promise settles: fulfilled, or rejected with some reason
HandlerSettle ==
  /\ lp = "awaitHandler"
  /\ race = "pending"
  /\ \E k \in {"ok"} \cup ErrKinds :
       /\ race' = k
       /\ hsettled' = hsettled \cup {IF k = "ok" THEN "ok" ELSE "fail"}
  /\ inflight' = inflight - 1
  /\ UNCHANGED <<qvars, tgvars, abvars, strictInterval, loopIntervalMs, srcFaulty,
                 lp, handled, aborted, reason, sinceYield, timer, thrown, exitBy>>
  /\ UNCHANGED <<clocked, now, lastYield>>

\* withTimeout's setTimeout callback: timeoutController.abort(timeoutError)
TimerFire_lost ==
  /\ ContinuationsFirst
  /\ lp = "awaitHandler"
  /\ timer = 0
  /\ timer' = -1
  /\ UNCHANGED race
  /\ UNCHANGED <<qvars, tgvars, abvars, strictInterval, loopIntervalMs, srcFaulty,
                 lp, handled, hsettled, aborted, reason, sinceYield,
                 thrown, exitBy, inflight>>
  /\ UNCHANGED <<clocked, now, lastYield>>

TimerFire ==
  /\ ContinuationsFirst
  /\ lp = "awaitHandler"
  /\ timer = 0
  /\ timer' = -1
  /\ race' = IF race = "pending" THEN "timeout" ELSE race
  /\ UNCHANGED <<qvars, tgvars, abvars, strictInterval, loopIntervalMs, srcFaulty,
                 lp, handled, hsettled, aborted, reason, sinceYield,
                 thrown, exitBy, inflight>>
  /\ UNCHANGED <<clocked, now, lastYield>>

\* the loop resumes from the await of the handler (the timer is cleared),
\* sorts the failure and calls yieldByInterval, which returns at once
\* while now - lastYield < interval and else schedules a macro task
LoopHandlerResume_break ==
  /\ ContinuationsFirst
  /\ lp = "awaitHandler"
  /\ race # "pending"
  /\ timer' = -1
  /\ IF race \in {"ok"}
     THEN /\ lp' = "awaitYield"
          /\ race' = IF sinceYield < loopIntervalMs THEN "ok" ELSE "pending"
          /\ UNCHANGED <<tgvars, thrown, exitBy>>
     ELSE IF race \in {"dom", "timeout"}
     THEN finish("cancel") /\ UNCHANGED race
     ELSE finish("fatal") /\ UNCHANGED race
  /\ UNCHANGED <<qvars, abvars, strictInterval, loopIntervalMs, srcFaulty, handled,
                 hsettled, aborted, reason, sinceYield, inflight>>
  /\ UNCHANGED <<clocked, now, lastYield>>

\* LoopHandlerResume that swallows every failure of the handler
LoopHandlerResume_swallow ==
  /\ ContinuationsFirst
  /\ lp = "awaitHandler"
  /\ race # "pending"
  /\ timer' = -1
  /\ IF race \in {"ok", "timeout", "other"}
     THEN /\ lp' = "awaitYield"
          /\ race' = IF sinceYield < loopIntervalMs THEN "ok" ELSE "pending"
          /\ UNCHANGED <<tgvars, thrown, exitBy>>
     ELSE finish("cancel") /\ UNCHANGED race
  /\ UNCHANGED <<qvars, abvars, strictInterval, loopIntervalMs, srcFaulty, handled,
                 hsettled, aborted, reason, sinceYield, inflight>>
  /\ UNCHANGED <<clocked, now, lastYield>>

\* LoopHandlerResume of a loop that does not await the handler's promise
LoopHandlerResume_nowait ==
  /\ ContinuationsFirst
  /\ lp = "awaitHandler"
  /\ timer' = -1
  /\ IF race \in {"pending", "ok", "timeout"}
     THEN /\ lp' = "awaitYield"
          /\ race' = IF sinceYield < loopIntervalMs THEN "ok" ELSE "pending"
          /\ UNCHANGED <<tgvars, thrown, exitBy>>
     ELSE IF race = "dom"
     THEN finish("cancel") /\ UNCHANGED race
     ELSE finish("fatal") /\ UNCHANGED race
  /\ UNCHANGED <<qvars, abvars, strictInterval, loopIntervalMs, srcFaulty, handled,
                 hsettled, aborted, reason, sinceYield, inflight>>
  /\ UNCHANGED <<clocked, now, lastYield>>

LoopHandlerResume ==
  /\ ContinuationsFirst
  /\ lp = "awaitHandler"
  /\ race # "pending"
  /\ timer' = -1
  /\ IF race \in {"ok", "timeout"}
     THEN /\ lp' = "awaitYield"
          /\ race' = IF sinceYield < loopIntervalMs THEN "ok" ELSE "pending"
          /\ UNCHANGED <<tgvars, thrown, exitBy>>
     ELSE IF race = "dom"
     THEN finish("cancel") /\ UNCHANGED race
     ELSE finish("fatal") /\ UNCHANGED race
  /\ UNCHANGED <<qvars, abvars, strictInterval, loopIntervalMs, srcFaulty, handled,
                 hsettled, aborted, reason, sinceYield, inflight>>
  /\ UNCHANGED <<clocked, now, lastYield>>

\* the promise of a handler invocation that the loop has stopped awaiting
\* (timeout or abort won its race) settles in the background
AbandonedSettle ==
  /\ inflight > (IF lp = "awaitHandler" /\ race = "pending" THEN 1 ELSE 0)
  /\ inflight' = inflight - 1
  /\ UNCHANGED <<qvars, tgvars, abvars, strictInterval, loopIntervalMs, srcFaulty,
                 lp, race, handled, hsettled, aborted, reason, sinceYield, timer,
                 thrown, exitBy>>
  /\ UNCHANGED <<clocked, now, lastYield>>

\* setTimeout callback of a yielder that resolves without lastYield = now
YieldTimer_stale ==
  /\ ContinuationsFirst
  /\ lp = "awaitYield"
  /\ race = "pending"
  /\ race' = "ok"
  /\ UNCHANGED <<qvars, tgvars, abvars, strictInterval, loopIntervalMs, srcFaulty,
                 lp, handled, hsettled, aborted, reason, timer, thrown, exitBy, inflight,
                 sinceYield, clocked, now, lastYield>>

\* yieldByInterval's setTimeout callback: lastYield = now, resolve()
YieldTimer ==
  /\ ContinuationsFirst
  /\ lp = "awaitYield"
  /\ race = "pending"
  /\ race' = "ok"
  /\ sinceYield' = 0
  /\ UNCHANGED <<qvars, tgvars, abvars, strictInterval, loopIntervalMs, srcFaulty,
                 lp, handled, hsettled, aborted, reason, timer, thrown, exitBy, inflight>>
  /\ lastYield' = now
  /\ UNCHANGED <<clocked, now>>

\* the loop resumes from await yieldByInterval() and starts the next turn
LoopYieldResume ==
  /\ ContinuationsFirst
  /\ lp = "awaitYield"
  /\ race = "ok"
  /\ requestNext
  /\ UNCHANGED <<tgvars, abvars, strictInterval, loopIntervalMs, srcFaulty, handled,
                 hsettled, aborted, reason, sinceYield, timer, thrown, exitBy, inflight>>
  /\ UNCHANGED <<clocked, now, lastYield>>

\* one millisecond passes: now - lastYield grows (kept up to the interval,
\* beyond which yieldByInterval does not tell values apart) and a pending
\* timeout comes one millisecond closer
Tick ==
  /\ ContinuationsFirst
  /\ lp \notin {"init", "stopped"}
  /\ sinceYield < loopIntervalMs \/ timer > 0 \/ clocked
  /\ sinceYield' = Min(sinceYield + 1, loopIntervalMs)
  /\ timer' = IF timer > 0 THEN timer - 1 ELSE timer
  /\ UNCHANGED <<qvars, tgvars, abvars, strictInterval, loopIntervalMs, srcFaulty,
                 lp, race, handled, hsettled, aborted, reason, thrown, exitBy, inflight>>
  /\ clocked => now < MaxNow
  /\ now' = IF clocked THEN now + 1 ELSE now
  /\ UNCHANGED <<clocked, lastYield>>

\* controller.abort(r): the signal becomes aborted and the abort listener
\* of a pending withAbort rejects its race with signal.reason.  While the
\* loop awaits iterator.next() and the queue has already answered, the
\* iterator's promise settles a few microtasks later: an abort in between
\* wins the race, a later one loses it.
Abort_nolisten ==
  /\ ~aborted
  /\ aborted' = TRUE
  /\ \E r \in ErrKinds : reason' = r
  /\ UNCHANGED race
  /\ UNCHANGED <<qvars, tgvars, abvars, strictInterval, loopIntervalMs, srcFaulty,
                 lp, handled, hsettled, sinceYield, timer, thrown, exitBy, inflight>>
  /\ UNCHANGED <<clocked, now, lastYield>>

Abort ==
  /\ ~aborted
  /\ aborted' = TRUE
  /\ \E r \in ErrKinds :
       /\ reason' = r
       /\ IF lp = "awaitHandler" /\ race = "pending"
          THEN race' = r
          ELSE IF lp = "awaitNext" /\ race = "pending"
          THEN IF cres[LoopId] = NONE
               THEN race' = r
               ELSE race' \in {r, "pending"}
          ELSE UNCHANGED race
  /\ UNCHANGED <<qvars, tgvars, abvars, strictInterval, loopIntervalMs, srcFaulty,
                 lp, handled, hsettled, sinceYield, timer, thrown, exitBy, inflight>>
  /\ UNCHANGED <<clocked, now, lastYield>>

\* ================================================================
\* abort.ts: withAbort, withTimeout, mergeAbortSignals
\* ================================================================
\* Signals: "A" is the source passed by the caller (the external signal of
\* withTimeout, the first input of a merge), "B" the second input of a merge
\* (in withTimeout: timeoutController.signal), "M" the merged signal.
\* sig[s] is signal.reason once s is aborted, "none" before.
Signals == {"A", "B", "M"}
Reasons == {"X", "Y"}          \* reasons a caller aborts with
TimeoutReason == "timeout"     \* timeoutError
Outcomes == {"ok", "fail"}     \* the operation fulfils or rejects

AbortInit ==
  /\ api = "none"
  /\ hasSrc = FALSE
  /\ op = "pending"
  /\ sig = [s \in Signals |-> "none"]
  /\ lsn = {}
  /\ tpend = FALSE
  /\ arace = "pending"
  /\ res = "pending"
  /\ same = FALSE
  /\ order = <<>>

\* mergeAbortSignals([A, B]) at the call: the first input, in list order,
\* that is already aborted aborts the new controller and ends the call;
\* every input passed before it has got the onAbort listener
mergeAbortSignals_firstonly(sg, ls) ==
  IF sg["A"] # "none"
  THEN [sig |-> [sg EXCEPT !["M"] = sg["A"]], lsn |-> ls]
  ELSE [sig |-> sg, lsn |-> ls \cup {<<"A", "merge">>}]

mergeAbortSignals(sg, ls) ==
  IF sg["A"] # "none"
  THEN [sig |-> [sg EXCEPT !["M"] = sg["A"]], lsn |-> ls]
  ELSE IF sg["B"] # "none"
  THEN [sig |-> [sg EXCEPT !["M"] = sg["B"]],
        lsn |-> ls \cup {<<"A", "merge">>}]
  ELSE [sig |-> sg, lsn |-> ls \cup {<<"A", "merge">>, <<"B", "merge">>}]

\* controller.abort(r) on signal s and the listeners it runs:
\*   withAbort's onAbort (once) rejects the race with signal.reason;
\*   the merge's onAbort aborts the merged controller with the reason of
\*   the first aborted input in list order, removes itself from every
\*   input, and the merged signal runs its own withAbort listener.
\* abort() on an aborted signal does nothing.
abortSignal(s, r) ==
  IF sig[s] # "none"
  THEN UNCHANGED <<sig, lsn, arace>>
  ELSE LET sg1 == [sig EXCEPT ![s] = r]
           viaMerge == <<s, "merge">> \in lsn
           mr  == IF sg1["A"] # "none" THEN sg1["A"] ELSE sg1["B"]
           mFires == viaMerge /\ sg1["M"] = "none"
           sg2 == IF mFires THEN [sg1 EXCEPT !["M"] = mr] ELSE sg1
           fired == {s} \cup (IF mFires THEN {"M"} ELSE {})
           hit == {t \in fired : <<t, "withAbort">> \in lsn}
       IN  /\ sig' = sg2
           /\ lsn' = (lsn \ {<<t, "withAbort">> : t \in fired})
                        \ (IF viaMerge
                           THEN {<<"A", "merge">>, <<"B", "merge">>} ELSE {})
           /\ arace' = IF hit # {} /\ arace = "pending"
                       THEN sg2[CHOOSE t \in hit : TRUE] ELSE arace

\* the signal the pending withAbort listens to
Watched ==
  IF api = "withAbort" THEN "A" ELSE IF hasSrc THEN "M" ELSE "B"

\* the caller's controller aborts the source with some reason
FireA ==
  /\ sig["A"] = "none"
  /\ \E r \in Reasons : abortSignal("A", r)
  /\ order' = Append(order, "A")
  /\ UNCHANGED <<api, hasSrc, op, tpend, res, same>>

\* the controller of the second input of a merge aborts it
FireB ==
  /\ api \in {"none", "merge"}
  /\ sig["B"] = "none"
  /\ \E r \in Reasons : abortSignal("B", r)
  /\ order' = Append(order, "B")
  /\ UNCHANGED <<api, hasSrc, op, tpend, res, same>>

\* the operation's promise settles; a pending race settles with it
OpSettle ==
  /\ api # "merge"
  /\ op = "pending"
  /\ \E k \in Outcomes :
       /\ op' = k
       /\ arace' = IF api # "none" /\ ~same /\ arace = "pending"
                   THEN k ELSE arace
       /\ res' = IF same THEN k ELSE res
  /\ order' = Append(order, "op")
  /\ UNCHANGED <<api, hasSrc, sig, lsn, tpend, same>>

\* withAbort(promise, signal?)
withAbort_noaborted(h) ==
  /\ api = "none"
  /\ api' = "withAbort"
  /\ hasSrc' = h
  /\ order' = Append(order, "call")
  /\ IF ~h
     THEN /\ same' = TRUE
          /\ res' = op
          /\ UNCHANGED <<lsn, arace>>
     ELSE /\ same' = FALSE
          /\ lsn' = lsn \cup {<<"A", "withAbort">>}
          /\ arace' = op
          /\ res' = "pending"
  /\ UNCHANGED <<op, sig, tpend>>

withAbort(h) ==
  /\ api = "none"
  /\ api' = "withAbort"
  /\ hasSrc' = h
  /\ order' = Append(order, "call")
  /\ IF ~h
     THEN \* return promise
          /\ same' = TRUE
          /\ res' = op
          /\ UNCHANGED <<lsn, arace>>
     ELSE IF sig["A"] # "none"
     THEN \* return Promise.reject(signal.reason)
          /\ same' = FALSE
          /\ arace' = sig["A"]
          /\ res' = sig["A"]
          /\ UNCHANGED lsn
     ELSE \* listener added, race of the promise and the abort promise; a
          \* promise that is already settled wins the race
          /\ same' = FALSE
          /\ lsn' = lsn \cup {<<"A", "withAbort">>}
          /\ arace' = op
          /\ res' = "pending"
  /\ UNCHANGED <<op, sig, tpend>>

\* withTimeout(handle, timeout, externalSignal?) up to its await: the timer
\* is set, the signals are merged when an external signal is passed, the
\* handler is invoked and withAbort wraps its promise
withTimeout_nomerge(h) ==
  /\ api = "none"
  /\ op = "pending" /\ sig["B"] = "none"
  /\ api' = "withTimeout"
  /\ hasSrc' = h
  /\ order' = Append(order, "call")
  /\ tpend' = TRUE
  /\ sig' = sig
  /\ lsn' = lsn \cup {<<"B", "withAbort">>}
  /\ arace' = "pending"
  /\ UNCHANGED <<op, res, same>>

withTimeout(h) ==
  /\ api = "none"
  /\ op = "pending" /\ sig["B"] = "none"
  /\ api' = "withTimeout"
  /\ hasSrc' = h
  /\ order' = Append(order, "call")
  /\ tpend' = TRUE
  /\ LET mg == IF h THEN mergeAbortSignals(sig, lsn)
                    ELSE [sig |-> sig, lsn |-> lsn]
         w  == IF h THEN "M" ELSE "B"
     IN  /\ sig' = mg.sig
         /\ IF mg.sig[w] # "none"
            THEN /\ arace' = mg.sig[w]
                 /\ lsn' = mg.lsn
            ELSE /\ arace' = "pending"
                 /\ lsn' = mg.lsn \cup {<<w, "withAbort">>}
  /\ UNCHANGED <<op, res, same>>

\* the setTimeout callback of withTimeout: timeoutController.abort(timeoutError).
\* Once the race has settled, the finally of withTimeout clears the timer
\* before any timer callback can run.
AbTimerFire ==
  /\ api = "withTimeout"
  /\ tpend /\ arace = "pending"
  /\ tpend' = FALSE
  /\ abortSignal("B", TimeoutReason)
  /\ order' = Append(order, "B")
  /\ UNCHANGED <<api, hasSrc, op, res, same>>

\* the race has settled and withAbort has no finally
AbSettle_keeplistener ==
  /\ api \in {"withAbort", "withTimeout"}
  /\ ~same
  /\ arace # "pending" /\ res = "pending"
  /\ lsn' = lsn
  /\ tpend' = FALSE
  /\ res' = arace
  /\ UNCHANGED <<api, hasSrc, op, sig, arace, same, order>>

\* the race has settled and withTimeout has no finally
AbSettle_keeptimer ==
  /\ api \in {"withAbort", "withTimeout"}
  /\ ~same
  /\ arace # "pending" /\ res = "pending"
  /\ lsn' = lsn \ {<<Watched, "withAbort">>}
  /\ tpend' = tpend
  /\ res' = arace
  /\ UNCHANGED <<api, hasSrc, op, sig, arace, same, order>>

\* the race has settled: withAbort's finally removes its listener,
\* withTimeout's finally clears the timer, and the returned promise settles
AbSettle ==
  /\ api \in {"withAbort", "withTimeout"}
  /\ ~same
  /\ arace # "pending" /\ res = "pending"
  /\ lsn' = lsn \ {<<Watched, "withAbort">>}
  /\ tpend' = FALSE
  /\ res' = arace
  /\ UNCHANGED <<api, hasSrc, op, sig, arace, same, order>>

\* mergeAbortSignals([A, B]) called on two sources
Merge ==
  /\ api = "none"
  /\ api' = "merge"
  /\ hasSrc' = TRUE
  /\ order' = Append(order, "call")
  /\ sig' = mergeAbortSignals(sig, lsn).sig
  /\ lsn' = mergeAbortSignals(sig, lsn).lsn
  /\ UNCHANGED <<op, tpend, arace, res, same>>

\* ================================================================
\* SpecLoop: launchEventLoop over a BoundedQueue, with producers, a
\* closer, an abort controller and wait() callers around it
\* ================================================================
InitLoop == QueueInit /\ TGInit /\ LoopInit /\ AbortInit

LoopProducers == Producers \cap (1..NLoopProducers)
LoopWaiters   == Waiters \cap (1..NLoopWaiters)

LTryPush    == \E p \in LoopProducers :
                  /\ Issuable(MaxLoopPush)
                  /\ tryPush(p)
                  /\ UNCHANGED <<tgvars, loopvars, abvars>>
LPush       == \E p \in LoopProducers :
                  /\ Issuable(MaxLoopPush)
                  /\ push(p)
                  /\ UNCHANGED <<tgvars, loopvars, abvars>>
LPushResume == \E p \in LoopProducers :
                  pushResume(p) /\ UNCHANGED <<tgvars, loopvars, abvars>>
LClose      == ~closed /\ close /\ UNCHANGED <<tgvars, loopvars, abvars>>
LWait       == \E w \in LoopWaiters : wait(w) /\ UNCHANGED <<qvars, loopvars, abvars>>

NextLoop ==
  \/ Launch \/ LoopNextResume \/ HandlerSettle \/ TimerFire
  \/ LoopHandlerResume \/ YieldTimer \/ LoopYieldResume \/ Tick \/ Abort
  \/ LTryPush \/ LPush \/ LPushResume \/ LClose \/ LWait
  \/ AbandonedSettle

SpecLoop == InitLoop /\ [][NextLoop]_vars

\* the continuation of a woken producer runs
PushResumes ==
  \E p \in Producers : pushResume(p) /\ UNCHANGED <<tgvars, loopvars, abvars>>

\* The JavaScript runtime runs every continuation of a settled promise and
\* every timer callback, and time passes.  Nothing makes a handler settle,
\* a producer push, or anybody call close() or abort().
Fairness ==
  /\ WF_vars(LoopNextResume) /\ WF_vars(LoopHandlerResume)
  /\ WF_vars(LoopYieldResume) /\ WF_vars(YieldTimer)
  /\ WF_vars(TimerFire) /\ WF_vars(Tick)
  /\ WF_vars(PushResumes)

FairLoop == SpecLoop /\ Fairness

\* the same, for a handler whose promise always settles
FairLoopSettling == SpecLoop /\ Fairness /\ WF_vars(HandlerSettle)

\* ----------------------------------------------------------------
\* Claims on launchEventLoop (SpecLoop, FairLoop)
\* ----------------------------------------------------------------
Running == lp \in {"awaitNext", "awaitHandler", "awaitYield"}
NoWaiterPending == waiters = <<>> /\ \A w \in Waiters : wpc[w] # "waiting"

\* C7: however the loop exits, add(1) is called exactly once at the start
\* and done() exactly once at the exit, so that once the loop has stopped
\* the counter is 0 and no wait() is pending.
C7_AddOnceDoneOnce ==
  /\ lp = "init" => (added = 0 /\ dones = 0 /\ count = 0)
  /\ Running => (added = 1 /\ dones = 0 /\ count = 1)
  /\ lp = "stopped" => (added = 1 /\ dones = 1 /\ count = 0 /\ NoWaiterPending)

\* the loop exited on a fatal failure and a wait() registered during its
\* run was released
C7_Witness ==
  /\ lp = "stopped" /\ exitBy = "fatal" /\ thrown
  /\ \E w \in Waiters : wpc[w] = "released"

\* C8: with no abort, no handler failure and a queue as event source, the
\* handler is invoked on the accepted values, once each and in enqueue
\* order; the loop stops only at end-of-stream of the closed queue, having
\* handled every accepted value, with the counter back at 0; and when the
\* handler's promise always settles, a loop over a closed queue does stop.
C8_HandlesAllInOrder ==
  /\ []((~aborted /\ "fail" \notin hsettled /\ ~srcFaulty) =>
          /\ IsPrefix(handled, enq)
          /\ lp = "stopped" =>
                (exitBy = "eos" /\ closed /\ handled = enq /\ count = 0))
  /\ ((closed /\ Running) ~> (lp = "stopped"))

\* two values were pushed, the queue closed, and the loop stopped after
\* handling both with no abort and no failure
C8_Witness ==
  /\ lp = "stopped" /\ ~aborted /\ hsettled = {"ok"} /\ ~srcFaulty
  /\ Len(handled) >= 2 /\ handled = enq /\ count = 0

\* C9: after the abort signal has fired a launched loop reaches Stopped and
\* no wait() stays pending, in both modes and without any handler
\* completing.
C9_AbortStopsLoop ==
  (aborted /\ Running) ~> (lp = "stopped" /\ NoWaiterPending)

\* non-strict mode: the abort fired while the handler was pending, no
\* handler invocation ever settled, the loop stopped and released a waiter
C9_Witness ==
  /\ ~strictInterval /\ aborted /\ lp = "stopped"
  /\ hsettled = {} /\ Len(handled) >= 1
  /\ \E w \in Waiters : wpc[w] = "released"

\* C10: in strict mode a handler still pending when the interval elapses
\* is abandoned and the loop goes on: a timeout rejection never stops the
\* loop, and over a closed queue the loop reaches Stopped and releases
\* every wait(), without any handler completing.
C10_TimeoutContinues ==
  /\ [][(lp = "awaitHandler" /\ race = "timeout" /\ lp' # "awaitHandler")
          => lp' = "awaitYield"]_vars
  /\ ((strictInterval /\ closed /\ Running)
        ~> (lp = "stopped" /\ NoWaiterPending))

\* strict mode, no abort: every handler invocation timed out, none ever
\* settled, and the loop stopped at end-of-stream releasing a waiter
C10_Witness ==
  /\ strictInterval /\ ~aborted /\ ~srcFaulty /\ hsettled = {}
  /\ lp = "stopped" /\ exitBy = "eos" /\ Len(handled) >= 2
  /\ \E w \in Waiters : wpc[w] = "released"

\* ================================================================
\* SpecQueue: a BoundedQueue used by producer and consumer flows
\* ================================================================
InitQueue == QueueInit /\ TGInit /\ LoopOff /\ AbortInit

QTryPush    == \E p \in Producers : tryPush(p) /\ UNCHANGED <<tgvars, loopvars, abvars>>
QPush       == \E p \in Producers : push(p) /\ UNCHANGED <<tgvars, loopvars, abvars>>
QPushResume == \E p \in Producers : pushResume(p) /\ UNCHANGED <<tgvars, loopvars, abvars>>
QClose      == closes < MaxCloses /\ close /\ UNCHANGED <<tgvars, loopvars, abvars>>
QNext       == \E c \in Consumers : next(c) /\ UNCHANGED <<tgvars, loopvars, abvars>>

NextQueue == QTryPush \/ QPush \/ QPushResume \/ QClose \/ QNext

SpecQueue == InitQueue /\ [][NextQueue]_vars

\* ----------------------------------------------------------------
\* Claims on the BoundedQueue (SpecQueue)
\* ----------------------------------------------------------------

\* C1: for every capacity c > 0 and every interleaving of tryPush, push,
\* next and close, the buffer never holds more than c values.
C1_BufferWithinCapacity == Len(buffer) <= capacity

\* the buffer is full and a producer had to suspend behind it
C1_Witness == Len(buffer) = capacity /\ waitingProducers # <<>>

\* C2: FIFO: the values whose enqueue succeeded are, in that order, the
\* values that have left the queue followed by the values still buffered.
C2_Fifo == enq = deq \o buffer

\* two values sat in the buffer together (no consumer waiting) and the
\* dequeues that followed returned them
C2_Witness ==
  /\ Len(closeBuf) >= 2
  /\ Len(deq) >= deqAtClose + 2
  /\ \E c \in Consumers : cres[c] = closeBuf[2]

\* C3: once the queue is closed no enqueue succeeds: nothing is accepted,
\* the buffer does not grow, every call that returns returns false, and a
\* push that was suspended or woken returns false.
C3_NoEnqueueAfterClose ==
  [][closed =>
       /\ enq' = enq
       /\ Len(buffer') <= Len(buffer)
       /\ \A p \in Producers :
            /\ pres'[p] \in {pres[p], "false"}
            /\ ppc[p] # "waiting"
            /\ (ppc[p] = "woken" /\ ppc'[p] # "woken")
                  => (ppc'[p] = "idle" /\ pres'[p] = "false")]_vars

\* closed, one push woken by close and not yet resumed, another call
\* already answered false
C3_Witness ==
  /\ closed
  /\ \E p, q \in Producers :
       /\ ppc[p] = "woken"
       /\ ppc[q] = "idle" /\ pres[q] = "false"

\* C4: after close the dequeues return the values buffered at close, in
\* order, and only then end-of-stream; after one end-of-stream every later
\* dequeue reports end-of-stream.
C4_DrainThenEos ==
  /\ [](closed =>
          SubSeq(deq, deqAtClose + 1, Len(deq)) \o buffer = closeBuf)
  /\ [](eosSeen => (closed /\ buffer = <<>>))
  /\ [][eosSeen => \A c \in ConsumerIds : cres'[c] \in {cres[c], EOS}]_vars

\* a closed queue was drained and a dequeue then reported end-of-stream
C4_Witness ==
  /\ closed /\ eosSeen
  /\ Len(closeBuf) >= 1
  /\ Len(deq) = deqAtClose + Len(closeBuf)
  /\ \E c \in Consumers : cres[c] = EOS

\* ================================================================
\* SpecTG: a TaskGroup used by add / done / wait callers
\* ================================================================
InitTG == QueueInit /\ capacity = 1 /\ TGInit /\ LoopOff /\ AbortInit

TGAdd  == \E n \in 1..MaxAddArg :
             /\ added + n <= MaxAdded
             /\ add(n)
             /\ UNCHANGED <<qvars, loopvars, abvars>>
TGDone == dones < MaxDones /\ done /\ UNCHANGED <<qvars, loopvars, abvars>>
TGWait == \E w \in Waiters : wait(w) /\ UNCHANGED <<qvars, loopvars, abvars>>

NextTG == TGAdd \/ TGDone \/ TGWait

SpecTG == InitTG /\ [][NextTG]_vars

\* the same with any argument of add(n: number): zero and negative too
TGAddAny == \E n \in (-MaxNegAdd)..MaxAddArg :
               /\ added + n <= MaxAdded
               /\ added + n >= -MaxNegAdd
               /\ add(n)
               /\ UNCHANGED <<qvars, loopvars, abvars>>

NextTGAny == TGAddAny \/ TGDone \/ TGWait

SpecTGAny == InitTG /\ [][NextTGAny]_vars

\* ----------------------------------------------------------------
\* Claims on the TaskGroup (SpecTG)
\* ----------------------------------------------------------------

\* C5: wait() never resolves early: a pending wait() is released only by
\* the done() call that matches the last added unit (the n-th done() after
\* add(n)), and that done() releases every pending wait().
C5_WaitNotEarly ==
  [][/\ \A w \in Waiters :
          (wpc[w] = "waiting" /\ wpc'[w] # "waiting")
            => (dones' = dones + 1 /\ dones' = added /\ wpc'[w] = "released")
     /\ (dones' = dones + 1 /\ dones' = added)
            => (waiters' = <<>> /\ \A w \in Waiters : wpc'[w] # "waiting")]_vars

\* add(n) with n >= 2 was matched by n done() calls and every caller of
\* wait() has been released
C5_Witness ==
  /\ added >= 2 /\ dones = added
  /\ \A w \in Waiters : wpc[w] = "released"

\* C6: wait() called while the counter is 0 resolves at once and registers
\* no waiter.
C6_WaitImmediateAtZero ==
  [][\A w \in Waiters :
        (wpc[w] = "idle" /\ wpc'[w] # "idle" /\ count = 0)
          => (wpc'[w] = "immediate" /\ waiters' = waiters)]_vars

\* every added unit was matched by done(): one wait() had to wait and was
\* released, another found the counter at 0 and resolved at once
C6_Witness ==
  /\ added > 0 /\ dones = added /\ waiters = <<>>
  /\ \E w, u \in Waiters : wpc[w] = "immediate" /\ wpc[u] = "released"

\* ----------------------------------------------------------------
\* Claims on the order and the bookkeeping of the BoundedQueue (SpecQueue)
\* ----------------------------------------------------------------
PosIn(v, s) == CHOOSE i \in 1..Len(s) : s[i] = v
InSeq(v, s) == \E i \in 1..Len(s) : s[i] = v

\* push(x) suspended before push(y) suspended, and y has been enqueued:
\* then x was enqueued before it
ProducersServedInOrder ==
  \A i, j \in 1..Len(susp) :
     (i < j /\ InSeq(susp[j], enq)) =>
        (InSeq(susp[i], enq) /\ PosIn(susp[i], enq) < PosIn(susp[j], enq))

\* a value is handed to a waiting consumer: it is the one registered first
ConsumersServedInOrder ==
  \A c \in ConsumerIds :
     (cpc[c] = "waiting" /\ cpc'[c] = "idle" /\ cres'[c] # EOS) =>
        c = Head(waitingConsumers)

\* C15: waiting producers are served in strict first-registered-first-served
\* order (if push(x) suspended before push(y) suspended, x is enqueued
\* before y under every interleaving of next, tryPush, push and close), and
\* waiting consumers receive values in the order they registered.
C15_StrictFifoService ==
  /\ []ProducersServedInOrder
  /\ [][ConsumersServedInOrder]_vars

\* a push() is registered in waitingProducers and has not been woken
ProducerPending == waitingProducers # <<>>

\* C16 as stated: in every reachable state, if any producer request is
\* pending then the buffer is at capacity and the queue is open.
C16_PendingProducerMeansFull ==
  ProducerPending => (Len(buffer) = capacity /\ ~closed)

\* C16, amended: if any producer request is pending then the queue is open
\* and every free slot of the buffer is matched by a producer that next()
\* has woken and that has not resumed yet; the buffer is at capacity
\* whenever no woken producer is still to resume.
C16_PendingProducerMeansFullOrWoken ==
  ProducerPending =>
     /\ ~closed
     /\ capacity - Len(buffer) <= Len(wokenQ)
     /\ wokenQ = <<>> => Len(buffer) = capacity

\* a producer waits behind a buffer of capacity 2, next() has removed a
\* value and woken another producer, which has not resumed: one slot is free
C16_Witness ==
  /\ capacity = 2 /\ Len(buffer) = 1 /\ ~closed
  /\ Len(waitingProducers) = 1 /\ Len(wokenQ) = 1

\* a next() is registered in waitingConsumers and has not been answered
ConsumerPending == waitingConsumers # <<>>

\* C17: in every reachable state, if any consumer request is pending then
\* the buffer is empty.
C17_PendingConsumerMeansEmpty == ConsumerPending => buffer = <<>>

\* two consumers wait on the empty buffer after values have gone through
\* the queue
C17_Witness ==
  /\ Len(waitingConsumers) = 2 /\ buffer = <<>> /\ Len(deq) >= 2

\* the next() calls that received v, and the buffer slots that hold v
DeliveriesOf(v) ==
  {ci \in ConsumerIds \X (1..Len(enq)) :
      ci[2] <= Len(got[ci[1]]) /\ got[ci[1]][ci[2]] = v}
SlotsOf(v) == {i \in 1..Len(buffer) : buffer[i] = v}

\* C18: with several consumers dequeuing concurrently, every value whose
\* enqueue returned true has been delivered to exactly one next() call or
\* is still in the buffer, never both and never twice; and nothing else is
\* ever delivered or buffered.
C18_DeliveredExactlyOnce ==
  /\ \A v \in 1..(nextVal - 1) :
        Cardinality(DeliveriesOf(v)) + Cardinality(SlotsOf(v))
           = (IF InSeq(v, enq) THEN 1 ELSE 0)
  /\ \A c \in ConsumerIds : Len(got[c]) <= Len(enq)
  /\ \A c \in ConsumerIds : \A i \in 1..Len(got[c]) : InSeq(got[c][i], enq)

\* two consumers each received values, one of them by a direct hand-over
\* while it was waiting, and an accepted value is still buffered
C18_Witness ==
  /\ \E c, d \in Consumers : c # d /\ got[c] # <<>> /\ got[d] # <<>>
  /\ buffer # <<>> /\ Len(enq) >= 3

\* C19: close() is idempotent: a close() on a closed queue changes no field
\* of the queue, answers no consumer and wakes no producer, so the queue
\* after close(); close() is the queue after one close().
C19_CloseIdempotent ==
  [][(closes' = closes + 1 /\ closed) =>
        UNCHANGED <<capacity, buffer, waitingConsumers, waitingProducers,
                    closed, ppc, pval, pres, cpc, cres, wokenQ, enq, deq,
                    got>>]_vars

\* close() was called twice on a queue that still buffers a value and has
\* a woken producer to resume
C19_Witness ==
  /\ closes = 2 /\ closed /\ buffer # <<>> /\ wokenQ # <<>>

\* ================================================================
\* SpecNew: a BoundedQueue from its construction on
\* ================================================================
CtorArgs == (0 - MaxNeg)..MaxCap

InitNew == ctor = "none" /\ capacity = 0 /\ recording = TRUE /\ QueueFields /\ TGInit /\ LoopOff /\ AbortInit

NNew == \E c \in CtorArgs : constructor(c) /\ UNCHANGED <<tgvars, loopvars, abvars>>
\* only a constructed queue can be used
NUse == ctor = "ok" /\ NextQueue

NextNew == NNew \/ NUse

SpecNew == InitNew /\ [][NextNew]_vars

\* no operation has ever acted on the queue
Untouched ==
  /\ QueueFields
  /\ \A p \in Producers : ppc[p] = "idle" /\ pres[p] = "none"
  /\ \A c \in ConsumerIds : cpc[c] = "idle" /\ cres[c] = NONE

\* C20: constructing a BoundedQueue with capacity <= 0 fails with the
\* zero-capacity error and yields no queue (nothing can ever use it);
\* construction with capacity > 0 succeeds with an empty, open queue.
C20_ConstructorChecksCapacity ==
  /\ [](ctor = "errZeroCapacity" => (capacity <= 0 /\ Untouched))
  /\ [](ctor = "ok" => capacity > 0)
  /\ [][(ctor = "none" /\ ctor' # "none") =>
          /\ capacity' > 0 => (ctor' = "ok" /\ Untouched')
          /\ capacity' <= 0 => ctor' = "errZeroCapacity"]_vars

\* construction with capacity 0 has failed
C20_Witness == ctor = "errZeroCapacity" /\ capacity = 0

\* ================================================================
\* SpecDaemon: a Daemon, its pushEvent() and close() callers and the
\* controller of its cancellation source
\* ================================================================
DaemonPushers == Producers \cap (1..NDaemonPushers)
DaemonClosers == Waiters \cap (1..NDaemonClosers)

\* before new Daemon(...): a valid signal source, a queue of bufferSize
\* capacity, nothing launched
InitDaemon == QueueInit /\ TGInit /\ LoopInit /\ ~srcFaulty /\ AbortInit

\* new Daemon(signalSource, handleEvent, bufferSize, loopIntervalMs,
\* strictInterval): new TaskGroup, new BoundedQueue, launchEventLoop
DaemonNew == Launch

\* pushEvent(event): eventStream.push(event)
pushEvent(p) ==
  /\ lp # "init"
  /\ Issuable(MaxDaemonPush)
  /\ push(p)
  /\ UNCHANGED <<tgvars, loopvars, abvars>>

DaemonPushEvent == \E p \in DaemonPushers : pushEvent(p)
DaemonPushResume ==
  \E p \in DaemonPushers : pushResume(p) /\ UNCHANGED <<tgvars, loopvars, abvars>>

\* close(): eventStream.close(), then await tg.wait(); the call runs up to
\* the await in one synchronous step.  wpc[w] is "immediate" or "released"
\* once the awaited wait() has resolved.
DaemonClose(w) ==
  /\ lp # "init"
  /\ wpc[w] = "idle"
  /\ close
  /\ wait(w)
  /\ UNCHANGED <<loopvars, abvars>>

DaemonCloseCall == \E w \in DaemonClosers : DaemonClose(w)

NextDaemon ==
  \/ DaemonNew \/ LoopNextResume \/ HandlerSettle \/ TimerFire
  \/ LoopHandlerResume \/ YieldTimer \/ LoopYieldResume \/ Tick \/ Abort
  \/ DaemonPushEvent \/ DaemonPushResume \/ DaemonCloseCall

SpecDaemon == InitDaemon /\ [][NextDaemon]_vars

CloseResolved(w) == wpc[w] \in {"immediate", "released"}

\* the handler was invoked on the events in the order of their pushEvent
\* calls (events are numbered in call order)
HandledInPushOrder ==
  \A i, j \in 1..Len(handled) : i < j => handled[i] < handled[j]

\* every event whose pushEvent returned true has been handled, once
HandledAllAccepted ==
  /\ Len(handled) = Len(enq)
  /\ \A i \in 1..Len(enq) : InSeq(enq[i], handled)

\* nobody aborted and no handler invocation failed
Quiet == ~aborted /\ "fail" \notin hsettled

\* Daemon.close() resolves only after the loop has stopped with the counter
\* at 0, every accepted event handled
CloseAfterDrain ==
  \A w \in DaemonClosers :
     CloseResolved(w) =>
        /\ lp = "stopped" /\ count = 0
        /\ Quiet => HandledAllAccepted

\* C11: Daemon.close() resolves only after the loop has reached Stopped
\* with the TaskGroup counter at 0; and when the cancellation source never
\* fires and no handler fails, the handler has by then been invoked for
\* every event whose pushEvent returned true, in push order.
C11_CloseAfterDrainInPushOrder ==
  /\ CloseAfterDrain
  /\ \A w \in DaemonClosers :
        (CloseResolved(w) /\ Quiet) => HandledInPushOrder

\* ================================================================
\* SpecAbort: one call of withAbort, withTimeout or mergeAbortSignals, the
\* controllers of its sources, its operation and its timer
\* ================================================================
InitAbort == QueueInit /\ capacity = 1 /\ TGInit /\ LoopOff /\ AbortInit

ACallWithAbort ==
  \E h \in BOOLEAN : withAbort(h) /\ UNCHANGED <<qvars, tgvars, loopvars>>
ACallWithTimeout ==
  \E h \in BOOLEAN : withTimeout(h) /\ UNCHANGED <<qvars, tgvars, loopvars>>
ACallMerge  == Merge /\ UNCHANGED <<qvars, tgvars, loopvars>>
AFireA      == FireA /\ UNCHANGED <<qvars, tgvars, loopvars>>
AFireB      == FireB /\ UNCHANGED <<qvars, tgvars, loopvars>>
AOpSettle   == OpSettle /\ UNCHANGED <<qvars, tgvars, loopvars>>
ATimerFire  == AbTimerFire /\ UNCHANGED <<qvars, tgvars, loopvars>>
ASettle     == AbSettle /\ UNCHANGED <<qvars, tgvars, loopvars>>

NextAbort ==
  \/ ACallWithAbort \/ ACallWithTimeout \/ ACallMerge
  \/ AFireA \/ AFireB \/ AOpSettle \/ ATimerFire \/ ASettle

SpecAbort == InitAbort /\ [][NextAbort]_vars

\* e happened, and before f if f happened at all
Before(e, f) ==
  InSeq(e, order) /\ (InSeq(f, order) => PosIn(e, order) < PosIn(f, order))

\* the event of es that happened first, "none" when none has happened
FirstOf(es) ==
  IF \E e \in es : InSeq(e, order)
  THEN CHOOSE e \in es : InSeq(e, order) /\ \A f \in es \ {e} : Before(e, f)
  ELSE "none"

\* what an event settles a wrapper with
OutcomeOf(e) ==
  IF e = "op" THEN op ELSE IF e = "none" THEN "pending" ELSE sig[e]

\* the outcome the order of events calls for: the source's reason when the
\* source fired before the call, else the outcome of whichever came first
\* of the operation settling, the source firing and the deadline passing
Candidates ==
  {"op"} \cup (IF hasSrc THEN {"A"} ELSE {})
         \cup (IF api = "withTimeout" THEN {"B"} ELSE {})

Expected ==
  IF hasSrc /\ Before("A", "call")
  THEN sig["A"]
  ELSE OutcomeOf(FirstOf(Candidates))

C13_WithTimeoutOutcome ==
  api = "withTimeout" =>
     /\ arace = Expected
     /\ res \in {"pending", Expected}
     /\ res # "pending" =>
           \/ res = op /\ FirstOf(Candidates) = "op"
           \/ res = TimeoutReason /\ FirstOf(Candidates) = "B"
           \/ /\ hasSrc /\ res = sig["A"] /\ res \in Reasons
              /\ FirstOf(Candidates) = "A" \/ Before("A", "call")

\* with an external source: the deadline fired first, the external source
\* fired after it, and withTimeout failed with the Timeout reason
C13_Witness ==
  /\ api = "withTimeout" /\ hasSrc /\ order = <<"call", "B", "A">>
  /\ res = TimeoutReason /\ op = "pending"

\* C14: a merged source fires at the first fire of any input, with that
\* input's reason, and never again: an input that fires later does not
\* change the merged source's reason.  (When inputs had fired before the
\* merge, the merged source is fired from the start with the reason of one
\* of them.)
C14_MergedFiresOnceWithFirstReason ==
  (api \in {"merge", "withTimeout"} /\ hasSrc) =>
     IF \E e \in {"A", "B"} : Before(e, "call")
     THEN \E e \in {"A", "B"} : Before(e, "call") /\ sig["M"] = sig[e]
     ELSE IF FirstOf({"A", "B"}) = "none"
     THEN sig["M"] = "none"
     ELSE sig["M"] = sig[FirstOf({"A", "B"})]

\* the second input of a merge fired first with one reason, the first input
\* later with another: the merged source carries the reason of the second
C14_Witness ==
  /\ api = "merge" /\ order = <<"call", "B", "A">>
  /\ sig["B"] # sig["A"] /\ sig["M"] = sig["B"]

\* ================================================================
\* SpecStarve: an open BoundedQueue under an unbounded number of tryPush,
\* push and next calls (no history is kept, a value is its caller's id)
\* ================================================================
InitStarve ==
  /\ capacity \in 1..MaxCap
  /\ ctor = "ok"
  /\ recording = FALSE
  /\ QueueFields /\ TGInit /\ LoopOff /\ AbortInit

NextStarve == QTryPush \/ QPush \/ QPushResume \/ QNext

SpecStarve == InitStarve /\ [][NextStarve]_vars

\* next() calls keep being issued, and the runtime runs the continuation
\* of every woken producer
FairStarve ==
  /\ SpecStarve
  /\ []<><<QNext>>_vars
  /\ WF_vars(QPushResume)

\* C21: while dequeue calls keep being issued on an open queue, every
\* suspended producer eventually has its value enqueued, whatever other
\* tryPush and push calls are interleaved.
C21_NoProducerStarves ==
  \A p \in Producers :
     (ppc[p] = "waiting") ~> (ppc[p] = "idle" /\ pres[p] = "true")

\* ----------------------------------------------------------------
\* Claims on failures and cancellation in launchEventLoop (SpecLoop)
\* ----------------------------------------------------------------
\* no handler invocation failed and the event source never failed: the
\* only rejections the loop can see come from the cancellation source
OnlyAbortFails == "fail" \notin hsettled /\ ~srcFaulty

\* C22: when the cancellation source fires while the loop requests the next
\* event or awaits a handler, the loop stops cleanly: no failure is
\* propagated out of launchEventLoop, whatever reason the source was fired
\* with.
C22_AbortIsCleanStop ==
  (aborted /\ OnlyAbortFails /\ lp = "stopped") =>
     (~thrown /\ exitBy \in {"cancel", "eos"})

\* C23: the loop stops silently at the dispatch step only if it was aborted
\* from outside: while the cancellation source has not fired, no failure
\* of the handler makes the loop stop without propagating that failure.
C23_SilentStopOnlyOnAbort ==
  (~aborted /\ ~srcFaulty /\ lp = "stopped") =>
     (exitBy = "eos" \/ (exitBy = "fatal" /\ thrown))

\* C25: every value the loop removes from the event source is passed to the
\* handler: when the loop stops, the values its requests have taken out of
\* the queue are exactly the values dispatched; this also when the cancellation source fires between two
\* iterations or had fired before the launch.
C25_DequeuedIsDispatched ==
  [][(lp # "stopped" /\ lp' = "stopped") => got'[LoopId] = handled']_vars

\* C26: after the loop has stopped because its cancellation source fired
\* while it was suspended in the dequeue, no request of the loop remains
\* registered in the queue, so that a later push that returns true puts its
\* value in the buffer and never hands it to the abandoned request.
C26_NoAbandonedRequest ==
  (lp = "stopped" /\ exitBy = "cancel") =>
     /\ cpc[LoopId] # "waiting"
     /\ \A i \in 1..Len(waitingConsumers) : waitingConsumers[i] # LoopId

C28_CloseNeverOvertakesLoop ==
  /\ Running => (count = 1 /\ added = 1)
  /\ \A w \in DaemonClosers : CloseResolved(w) => lp = "stopped"
  /\ \A w \in DaemonClosers : wpc[w] = "waiting" => Running

\* close() was called right after construction, before any event and
\* before the loop had resumed once: it is suspended in wait()
C28_Witness ==
  /\ \E w \in DaemonClosers : wpc[w] = "waiting"
  /\ lp = "awaitNext" /\ enq = <<>> /\ handled = <<>> /\ closed
  /\ cres[LoopId] = EOS

\* the Daemon under the scheduling of the JavaScript runtime (Fairness),
\* with a handler whose promise always settles
FairDaemon == SpecDaemon /\ Fairness /\ WF_vars(HandlerSettle)

\* C27: after the cancellation source of a Daemon has fired and its loop
\* has stopped, a pushEvent call that is suspended eventually returns,
\* unless somebody calls close().
C27_PushEventReturnsAfterAbort ==
  \A p \in DaemonPushers :
    (aborted /\ lp = "stopped" /\ ppc[p] = "waiting")
       ~> (ppc[p] # "waiting" \/ closed)

\* ----------------------------------------------------------------
\* Claims on tryPush (SpecQueue)
\* ----------------------------------------------------------------
\* C29: with a consumer waiting, tryPush on an open queue hands the value
\* to the oldest waiting consumer, which is taken off the list and resumes
\* with it, returns true and leaves the buffer as it was; hence the values
\* of successive calls go to the waiting consumers in registration order.
C29_HandOffToOldestConsumer ==
  [][\A p \in Producers :
       (tryPush(p) /\ ~closed /\ waitingConsumers # <<>>) =>
          /\ pres'[p] = "true"
          /\ buffer' = buffer
          /\ waitingConsumers' = Tail(waitingConsumers)
          /\ cres'[Head(waitingConsumers)] = NewValue(p)
          /\ cpc'[Head(waitingConsumers)] = "idle"
          /\ got'[Head(waitingConsumers)] =
               Append(got[Head(waitingConsumers)], NewValue(p))
          /\ \A c \in Consumers \ {Head(waitingConsumers)} : got'[c] = got[c]]_vars

\* two consumers registered one after the other on an empty queue, then two
\* tryPush calls: the first registered got the first value, the second the
\* second
C29_Witness ==
  /\ \E c, d \in Consumers :
       /\ c # d /\ got[c] = <<1>> /\ got[d] = <<2>>
       /\ cpc[c] = "idle" /\ cpc[d] = "idle"
  /\ buffer = <<>> /\ ~closed /\ enq = <<1, 2>> /\ deq = <<1, 2>>
  /\ \A p \in Producers : ppc[p] = "idle" /\ pres[p] \in {"true", "none"}

\* C30: tryPush on an open queue with a full buffer and no consumer waiting
\* returns false and changes neither the buffer, nor a waiter list, nor the
\* closed flag; the caller is not suspended and no producer request is
\* registered.
C30_FullTryPushRefused ==
  [][\A p \in Producers :
       (tryPush(p) /\ ~closed /\ Len(buffer) = capacity /\ waitingConsumers = <<>>) =>
          /\ pres'[p] = "false"
          /\ ppc'[p] = "idle"
          /\ UNCHANGED <<buffer, waitingConsumers, waitingProducers, closed,
                         wokenQ, enq>>]_vars

\* a tryPush was refused on an open, full queue with nobody waiting
C30_Witness ==
  /\ \E p \in Producers : pres[p] = "false" /\ ppc[p] = "idle"
  /\ ~closed /\ Len(buffer) = capacity /\ waitingConsumers = <<>>
  /\ waitingProducers = <<>> /\ wokenQ = <<>>

\* ----------------------------------------------------------------
\* Claims on close() and the waiter lists (SpecQueue)
\* ----------------------------------------------------------------
\* C31: the close() that closes the queue resumes every waiting consumer
\* with end-of-stream and wakes every waiting producer, and while the queue
\* is closed no consumer request and no producer request is pending.
C31_CloseReleasesAllWaiters ==
  /\ [](closed =>
          /\ waitingConsumers = <<>> /\ waitingProducers = <<>>
          /\ \A c \in ConsumerIds : cpc[c] # "waiting"
          /\ \A p \in Producers : ppc[p] # "waiting")
  /\ [][(~closed /\ closed') =>
          /\ \A c \in ConsumerIds :
               cpc[c] = "waiting" => (cpc'[c] = "idle" /\ cres'[c] = EOS)
          /\ \A p \in Producers :
               ppc[p] = "waiting" => (ppc'[p] = "woken" /\ InSeq(p, wokenQ'))]_vars

\* close() found a full buffer and two producers waiting behind it: both
\* are woken and none is registered any more
C31_Witness ==
  /\ closed /\ Len(closeBuf) = capacity
  /\ \E p, q \in Producers : p # q /\ wokenQ = <<p, q>> /\ ppc[p] = "woken" /\ ppc[q] = "woken"
  /\ waitingProducers = <<>>

\* close() found a consumer waiting: it has resumed with end-of-stream
C31_WitnessConsumer ==
  /\ closed /\ closeBuf = <<>> /\ eosSeen
  /\ \E c \in Consumers : cres[c] = EOS /\ cpc[c] = "idle"
  /\ closes = 1 /\ deq = <<>>

\* ----------------------------------------------------------------
\* Claims on the TaskGroup counter (SpecTGAny, SpecTG)
\* ----------------------------------------------------------------
\* C32: the counter is the sum of the add(n) arguments minus the number of
\* done() calls; and as long as add() was called with positive n only and
\* done() never more often than units had been added, no wait() is pending
\* while the counter is 0.
C32_CounterIsAddedMinusDone ==
  /\ count = added - dones
  /\ (~misused /\ count = 0) => NoWaiterPending

\* add(2) was matched by two done() calls, which released two waiters;
\* the TaskGroup was used as agreed and the counter is back at 0
C32_Witness ==
  /\ ~misused /\ count = 0 /\ added >= 2 /\ dones = added
  /\ \A w \in Waiters : wpc[w] = "released"

\* with add(-1) the counter is back at 0 and a wait() is left pending
C32_WitnessMisuse ==
  /\ misused /\ count = 0 /\ dones = 0 /\ added = 0
  /\ \E w \in Waiters : wpc[w] = "waiting"

\* C33: done() at counter 0 takes the counter to -1 and releases nobody;
\* a wait() called while the counter is negative suspends; no add()
\* releases a waiter, also not the one that brings the counter back to 0;
\* a waiter is released only by a done() that takes the counter to 0.
C33_OverDoneWedgesWait ==
  /\ [][(dones' = dones + 1 /\ count = 0) =>
          (count' = -1 /\ wpc' = wpc /\ waiters' = waiters)]_vars
  /\ [][\A w \in Waiters :
          (wpc[w] = "idle" /\ wpc'[w] # "idle" /\ count < 0) =>
             (wpc'[w] = "waiting" /\ waiters' = Append(waiters, w))]_vars
  /\ [][added' # added => (wpc' = wpc /\ waiters' = waiters)]_vars
  /\ [][\A w \in Waiters :
          (wpc[w] = "waiting" /\ wpc'[w] # "waiting") =>
             (dones' = dones + 1 /\ count' = 0 /\ wpc'[w] = "released")]_vars

\* done() was called once too often, a wait() then suspended, and add(1)
\* has brought the counter back to 0 with the wait() still pending
C33_Witness ==
  /\ count = 0 /\ added = 1 /\ dones = 1 /\ misused
  /\ \E w \in Waiters : wpc[w] = "waiting" /\ waiters = <<w>>

\* ----------------------------------------------------------------
\* Claims on listeners and timers (SpecAbort)
\* ----------------------------------------------------------------
\* C34: once the promise returned by withAbort has settled, with the
\* operation's result, the operation's failure or the source's reason, the
\* abort listener that withAbort added is on no signal any more.
C34_WithAbortRemovesListener ==
  (api \in {"withAbort", "withTimeout"} /\ res # "pending") =>
     \A l \in lsn : l[2] # "withAbort"

\* the operation failed while the source had not fired: withAbort has
\* settled with the failure and the source carries no listener
C34_Witness ==
  /\ api = "withAbort" /\ hasSrc /\ order = <<"call", "op">>
  /\ op = "fail" /\ res = "fail" /\ sig["A"] = "none" /\ lsn = {}

\* C35: after withTimeout(operation, d, external) has settled, whatever the
\* outcome, no listener added during the call is left on the external
\* source.
C35_NoListenerLeftOnExternal ==
  (api = "withTimeout" /\ hasSrc /\ res # "pending") =>
     \A l \in lsn : l[1] # "A"

\* C36: when withTimeout has settled, with the operation's result or
\* failure, the timeout or the external reason, its timer is no longer
\* pending, and its internal source does not fire from then on.
C36_TimerClearedOnExit ==
  /\ []((api = "withTimeout" /\ res # "pending") => ~tpend)
  /\ [][(api = "withTimeout" /\ res # "pending") => sig'["B"] = sig["B"]]_vars

\* the operation finished before the deadline: withTimeout has settled,
\* the timer is cancelled and the internal source has not fired
C36_Witness ==
  /\ api = "withTimeout" /\ res = "ok" /\ op = "ok"
  /\ ~tpend /\ sig["B"] = "none"

C38_HandlersOneAtATime ==
  /\ [][handled' # handled =>
          /\ lp = "awaitNext" /\ lp' = "awaitHandler"
          /\ Len(handled') = Len(handled) + 1
          /\ inflight' = inflight + 1]_vars
  /\ [][(lp = "awaitHandler" /\ lp' # "awaitHandler") => race # "pending"]_vars
  /\ [][(lp = "awaitHandler" /\ race = "pending" /\ race' # "pending") =>
          \/ inflight' = inflight - 1
          \/ strictInterval /\ race' = "timeout" /\ timer = 0
          \/ ~aborted /\ aborted']_vars
  /\ []((~strictInterval /\ ~aborted) =>
          /\ inflight <= 1
          /\ inflight = 1 <=> (lp = "awaitHandler" /\ race = "pending"))

\* strictInterval off, nobody aborted: the first handler has settled, the
\* second is pending, more than the interval has passed since the last
\* yield, and the loop is still awaiting it
C38_Witness ==
  /\ ~strictInterval /\ ~aborted
  /\ lp = "awaitHandler" /\ race = "pending"
  /\ Len(handled) = 2 /\ inflight = 1 /\ hsettled = {"ok"}
  /\ sinceYield = loopIntervalMs

\* strictInterval on: the first handler was abandoned at the timeout and is
\* still pending while the second runs
C38_WitnessAbandoned ==
  /\ strictInterval /\ ~aborted
  /\ lp = "awaitHandler" /\ race = "pending"
  /\ Len(handled) = 2 /\ inflight = 2 /\ hsettled = {}

\* ================================================================
\* SpecYield: launchEventLoop with its MacroTaskYielder, on a clock
\* ================================================================
InitYield ==
  /\ QueueInit /\ TGInit /\ AbortInit
  /\ strictInterval \in BOOLEAN
  /\ loopIntervalMs \in 1..MaxInterval
  /\ srcFaulty = FALSE
  /\ lp = "init"
  /\ race = "pending"
  /\ handled = <<>>
  /\ hsettled = {}
  /\ aborted = FALSE
  /\ reason = "none"
  /\ sinceYield = 0
  /\ timer = -1
  /\ thrown = FALSE
  /\ exitBy = "none"
  /\ inflight = 0
  /\ clocked = TRUE
  /\ now = 0
  /\ lastYield = 0

SpecYield == InitYield /\ [][NextLoop]_vars

\* yieldByInterval is called in the step that takes the loop from the await
\* of a handler to "awaitYield"; it has returned at once when race' = "ok"
YieldCalled == lp = "awaitHandler" /\ lp' = "awaitYield"

\* C39: yieldByInterval returns without suspending and leaves lastYield as
\* it is when now - lastYield < interval; otherwise it suspends, and the
\* timer callback that ends the suspension sets lastYield to the time it
\* runs at; lastYield never decreases and never exceeds the clock; and the
\* loop calls yieldByInterval once after every dispatched event that did
\* not stop it, before it requests the next event.
C39_YieldByInterval ==
  /\ [](sinceYield = Min(now - lastYield, loopIntervalMs))
  /\ [](lastYield <= now)
  /\ [][lastYield' >= lastYield /\ now' >= now]_vars
  /\ [][YieldCalled =>
          /\ lastYield' = lastYield
          /\ race' = IF now - lastYield < loopIntervalMs THEN "ok" ELSE "pending"]_vars
  /\ [][(lp = "awaitYield" /\ race = "pending" /\ race' # "pending") =>
          (race' = "ok" /\ lastYield' = now' /\ lp' = "awaitYield")]_vars
  /\ [][(lp = "awaitHandler" /\ lp' # "awaitHandler") =>
          (lp' = "awaitYield" \/ lp' = "stopped")]_vars
  /\ [][(lp = "awaitYield" /\ lp' # "awaitYield") =>
          (race = "ok" /\ lp' = "awaitNext")]_vars
  /\ [][handled' # handled => lp = "awaitNext"]_vars

\* the loop has yielded twice, the second time later than the first, and
\* has gone on to a third event
C39_Witness ==
  /\ Len(handled) >= 2 /\ lp = "awaitNext"
  /\ lastYield >= 2 /\ lastYield <= now /\ now - lastYield < loopIntervalMs

\* yieldByInterval returned at once: the handler took no time
C39_WitnessNoYield ==
  /\ lp = "awaitYield" /\ race = "ok" /\ now = lastYield /\ Len(handled) = 2
  /\ now > 0

====
